---- MODULE Spec2Model ----
(***************************************************************************)
(* A state-machine model of the MetaTrader client layer:                   *)
(*   send_order (client/functions/send_order.py), one step per statement   *)
(*   group, with the terminal gateway (the MetaTrader5 module) as the      *)
(*   environment that answers each call.                                   *)
(* Prices and levels are small naturals; volumes are counted in units of   *)
(* 1/VolScale lot so that 0.01 and 100.0001 are both representable.        *)
(***************************************************************************)
EXTENDS Integers, Sequences, FiniteSets, TLC

\* ------------------------------------------------------------------ bounds
MaxPrice == 3
MaxSymbols == 2
MaxErr == 1
MaxRows == 2
MaxUnknown == 2
MaxCallers == 2
VolScale == 10000

\* ------------------------------------------------------- program constants
MaxVolume == 100

\* --------------------------------------------------------- enumerations
\* OrderType members and their codes (types.py).
OrderTypeCode ==
  [BUY |-> 0, SELL |-> 1, BUY_LIMIT |-> 2, SELL_LIMIT |-> 3, BUY_STOP |-> 4,
   SELL_STOP |-> 5, BUY_STOP_LIMIT |-> 6, SELL_STOP_LIMIT |-> 7, CLOSE_BY |-> 8]

OrderTypeNames == DOMAIN OrderTypeCode

\* Trade actions and their codes (types.py).
ActionCode ==
  [DEAL |-> 1, PENDING |-> 5, SLTP |-> 6, MODIFY |-> 7, REMOVE |-> 8, CLOSE_BY |-> 10]

ActionNames == DOMAIN ActionCode

\* str.upper() on the spellings that occur as inputs; any other string is
\* already its own upper-case form.
UpperTable ==
  [buy |-> "BUY", Buy |-> "BUY", sell |-> "SELL", Sell |-> "SELL", 
   buy_limit |-> "BUY_LIMIT", Buy_Limit |-> "BUY_LIMIT", 
   sell_limit |-> "SELL_LIMIT", Sell_Limit |-> "SELL_LIMIT", 
   buy_stop |-> "BUY_STOP", Buy_Stop |-> "BUY_STOP", 
   sell_stop |-> "SELL_STOP", Sell_Stop |-> "SELL_STOP", 
   buy_stop_limit |-> "BUY_STOP_LIMIT", 
   Buy_Stop_Limit |-> "BUY_STOP_LIMIT", 
   sell_stop_limit |-> "SELL_STOP_LIMIT", 
   Sell_Stop_Limit |-> "SELL_STOP_LIMIT", close_by |-> "CLOSE_BY", 
   Close_By |-> "CLOSE_BY", pending |-> "PENDING", 
   bogus |-> "BOGUS"]

Upper(s) == IF s \in DOMAIN UpperTable THEN UpperTable[s] ELSE s

\* A loosely typed enumeration input: a typed member, a name or a code.
EnumIn(n) == [kind |-> "enum", name |-> n, code |-> 0]
NameIn(n) == [kind |-> "name", name |-> n, code |-> 0]
CodeIn(c) == [kind |-> "code", name |-> "", code |-> c]

Invalid == "<InvalidEnumValue>"

\* validate(): the canonical member for a typed value, a name in any letter
\* case or a code; Invalid stands for the InvalidEnumValue error it fails with.
Validate(table, x) ==
  CASE x.kind = "enum" -> x.name
    [] x.kind = "name" -> IF Upper(x.name) \in DOMAIN table THEN Upper(x.name) ELSE Invalid
    [] OTHER -> IF \E n \in DOMAIN table : table[n] = x.code
                THEN CHOOSE n \in DOMAIN table : table[n] = x.code
                ELSE Invalid

\* ------------------------------------------------------------- outcomes
NoOutcome ==
  [kind |-> "none", keys |-> {}, success |-> FALSE, message |-> "",
   error_code |-> 0, return_code |-> 0, return_message |-> "", exc |-> ""]

\* { "success": False, "message": msg }
Reject(msg) ==
  [NoOutcome EXCEPT !.kind = "return", !.keys = {"success", "message"}, !.message = msg]

\* { "success": False, "message": f"Error {error_code}: {error_description}" }
ErrorOutcome(code) ==
  [NoOutcome EXCEPT !.kind = "return", !.keys = {"success", "message"},
                    !.message = "Error <code>: <description>", !.error_code = code]

\* { "success": True, "message": "Order sent successfully" }
Success ==
  [NoOutcome EXCEPT !.kind = "return", !.keys = {"success", "message"},
                    !.success = TRUE, !.message = "Order sent successfully"]

\* The dictionary returned when no case of the match returned.
UnknownError ==
  [NoOutcome EXCEPT !.kind = "return",
                    !.keys = {"success", "return_code", "return_message", "request", "result"},
                    !.return_code = -1, !.return_message = "Unknown error"]

\* An exception that leaves send_order.
Raised(e) == [NoOutcome EXCEPT !.kind = "raise", !.exc = e]

\* ------------------------------------------------------------ pure checks
\* VolumeInvalid with the upper limit excluded.
VolumeInvalid_UpperExcluded(v) == v <= 0 \/ v >= MaxVolume * VolScale

VolumeInvalid(v) == v <= 0 \/ v > MaxVolume * VolScale

BuyChecked == {"BUY", "BUY_LIMIT", "BUY_STOP"}
SellChecked == {"SELL", "SELL_LIMIT", "SELL_STOP"}

Ok == "ok"

\* The stop-loss / take-profit ordering rule.
LevelsMessage(t, p, sl, tp) ==
  IF t \in BuyChecked THEN
       IF sl >= p THEN "Stop loss must be below the price"
       ELSE IF tp <= p THEN "Take profit must be above the price"
       ELSE IF sl > tp THEN "Stop loss must be below the take profit"
       ELSE Ok
  ELSE IF t \in SellChecked THEN
       IF sl <= p THEN "Stop loss must be above the price"
       ELSE IF tp >= p THEN "Take profit must be below the price"
       ELSE IF sl < tp THEN "Stop loss must be above the take profit"
       ELSE Ok
  ELSE Ok

DealTypes == {"BUY", "SELL"}
PendingTypes == {"BUY_LIMIT", "SELL_LIMIT", "BUY_STOP", "SELL_STOP"}

NoTick == [has |-> FALSE, bid |-> 0, ask |-> 0]
Tick(b, a) == [has |-> TRUE, bid |-> b, ask |-> a]

\* MarketMessage with the boundary price refused as well.
MarketMessage_BoundaryRefused(t, p, tk) ==
  IF ~tk.has THEN Ok
  ELSE CASE t = "BUY_LIMIT" /\ p >= tk.ask -> "Invalid price, must be above current ask"
         [] t = "SELL_LIMIT" /\ p <= tk.bid -> "Invalid price, must be below current bid"
         [] t = "BUY_STOP" /\ p <= tk.ask -> "Invalid price, must be above current ask"
         [] t = "SELL_STOP" /\ p >= tk.bid -> "Invalid price, must be below current bid"
         [] OTHER -> Ok

\* MarketMessage with a missing quote refused instead of skipped.
MarketMessage_NoQuoteRefused(t, p, tk) ==
  IF ~tk.has THEN "Invalid price, must be above current ask"
  ELSE CASE t = "BUY_LIMIT" /\ p > tk.ask -> "Invalid price, must be above current ask"
         [] t = "SELL_LIMIT" /\ p < tk.bid -> "Invalid price, must be below current bid"
         [] t = "BUY_STOP" /\ p < tk.ask -> "Invalid price, must be above current ask"
         [] t = "SELL_STOP" /\ p > tk.bid -> "Invalid price, must be below current bid"
         [] OTHER -> Ok

\* The price-versus-market rule of a pending order.
MarketMessage(t, p, tk) ==
  IF ~tk.has THEN Ok
  ELSE CASE t = "BUY_LIMIT" /\ p > tk.ask -> "Invalid price, must be above current ask"
         [] t = "SELL_LIMIT" /\ p < tk.bid -> "Invalid price, must be below current bid"
         [] t = "BUY_STOP" /\ p < tk.ask -> "Invalid price, must be above current ask"
         [] t = "SELL_STOP" /\ p > tk.bid -> "Invalid price, must be below current bid"
         [] OTHER -> Ok

\* Names bound inside send_order: its parameters and the module's imports.
BoundNames ==
  {"connection", "action", "symbol", "volume", "order_type", "price", "stop_loss",
   "take_profit", "deviation", "magic", "comment", "position", "position_by",
   "order", "expiration", "type_filling", "type_time", "stoplimit", "_market",
   "mt5", "pd", "Optional", "Union", "Dict", "datetime", "MT5Market",
   "TradeRequest", "TradeRequestActions", "OrderType", "OrderFilling", "OrderTime"}

\* Names the market-deal request literal reads.
DealRequestNames ==
  {"symbol", "volume", "order_type", "price", "action", "mt5", "comment", "sl", "tp"}

NoRequest ==
  [built |-> FALSE, action |-> "", symbol |-> "", volume |-> 0, type |-> "",
   price |-> 0, sl |-> 0, tp |-> 0, deviation |-> 0, comment |-> "",
   type_time |-> "", expiration |-> 0, type_filling |-> ""]

\* The request dictionary of a pending order.
PendingRequest(a) ==
  [built |-> TRUE, action |-> a.action, symbol |-> a.symbol, volume |-> a.volume,
   type |-> a.order_type, price |-> a.price, sl |-> a.stop_loss, tp |-> a.take_profit,
   deviation |-> a.deviation, comment |-> a.comment,
   type_time |-> IF a.expiration # 0 THEN "SPECIFIED" ELSE "GTC",
   expiration |-> a.expiration, type_filling |-> "FOK"]

\* MainSeq with the ordering rule moved ahead of the symbol lookup.
MainSeq_LevelsFirst ==
  <<"validate_enums", "levels", "get_symbols", "symbol_select", "volume", "price", "dispatch">>

\* The statements every call runs in order before the match on the action.
MainSeq ==
  <<"validate_enums", "get_symbols", "symbol_select", "volume", "price", "levels", "dispatch">>

IndexOf(seq, s) == CHOOSE i \in 1..Len(seq) : seq[i] = s

\* The statement that follows s when s does not return.
NextStmt(s) == MainSeq[IndexOf(MainSeq, s) + 1]

GatewayCalls == {"get_symbols", "symbol_select", "symbol_info_tick", "order_send", "last_error"}

\* ---------------------------------------------------------------- inputs
ActionInputs ==
  {EnumIn(n) : n \in ActionNames} \cup {NameIn("pending"), NameIn("bogus"), CodeIn(1), CodeIn(99)}

OrderTypeInputs ==
  {EnumIn(n) : n \in OrderTypeNames} \cup {NameIn("Sell_Limit"), NameIn("bogus"), CodeIn(0), CodeIn(99)}

Volumes == {0 - VolScale, 0, VolScale \div 100, MaxVolume * VolScale, MaxVolume * VolScale + 1}

Prices == 0..MaxPrice

\* The price argument is a number, or a text float() cannot parse.
PriceKinds == {"number", "text"}

Comments == {"", "note"}

ErrorCodes == (0 - MaxErr)..MaxErr

Ticks == {NoTick} \cup {Tick(b, a) : b \in Prices, a \in Prices}

\* ----------------------------------------------------------------- state
VARIABLES
  pc,           \* the statement the call is at; "idle" before, "done" after
  args,         \* the parameters of the call, reassigned as the code reassigns them
  outcome,      \* what the call returned or raised
  trace,        \* the statements the call has executed, in order
  symbols,      \* how many symbols the gateway's lookup returned
  selected,     \* the gateway's answer to symbol_select
  tick,         \* the gateway's answer to symbol_info_tick
  request,      \* the request handed to order_send
  gwLastError   \* the gateway's last-error channel

vars == <<pc, args, outcome, trace, symbols, selected, tick, request, gwLastError>>

\* The state of MT5Orders._getPositions (client/orders.py).
VARIABLES
  qpc,          \* "idle" before a query, "done" after
  qargs,        \* the arguments of the query
  qcalls,       \* the gateway calls the query has made, in order
  qfetched,     \* the gateway's answer to positions_get
  qresult       \* the DataFrame the query returned, or the exception it raised

queryVars == <<qpc, qargs, qcalls, qfetched, qresult>>

\* Python's None where a string or a collection is expected.
NoneStr == "<None>"

\* pd.DataFrame(): no columns, no rows.
EmptyFrame == [columns |-> {}, rows |-> <<>>]

\* What a query hands back: a DataFrame, or an exception.
Returned(df) == [kind |-> "return", frame |-> df, exc |-> ""]
QueryRaised(e) == [kind |-> "raise", frame |-> EmptyFrame, exc |-> e]
NoResult == [kind |-> "none", frame |-> EmptyFrame, exc |-> ""]

\* positions_get answers None or a tuple of positions.
NoCollection == [none |-> TRUE, rows |-> <<>>]
Collection(rows) == [none |-> FALSE, rows |-> rows]

NoTicket == [kind |-> "none", int |-> 0, text |-> <<>>]
NoType == [kind |-> "none", name |-> "", code |-> 0]

NoQueryArgs == [ticket |-> NoTicket, symbol_name |-> NoneStr, group |-> NoneStr, order_type |-> NoType]

QueryIdle ==
  /\ qpc = "idle"
  /\ qargs = NoQueryArgs
  /\ qcalls = <<>>
  /\ qfetched = NoCollection
  /\ qresult = NoResult

\* The state of a caller of OrderType.to_string and OrderType.to_code
\* (client/types.py).
VARIABLES
  conv,         \* the conversion under way: its arguments and its results
  labels        \* the (code, label) pairs to_string gave for unknown codes

enumVars == <<conv, labels>>

NoConv ==
  [pc |-> "idle", code |-> 0, name |-> "", sdefault |-> NoneStr,
   cdefault |-> [some |-> FALSE, val |-> 0], str |-> "",
   int |-> [some |-> FALSE, val |-> 0]]

EnumIdle ==
  /\ conv = NoConv
  /\ labels = {}

\* The state of close_all_profittable_positions
\* (client/order/close_all_profittable_positions.py).
VARIABLES
  sweep         \* the positions it got, the close calls it made, what it gave back

sweepVars == <<sweep>>

NoSummary == [kind |-> "none", error |-> FALSE, message |-> "", data |-> NoneStr, exc |-> ""]

NoSweep == [pc |-> "idle", fetched |-> NoCollection, closes |-> <<>>, summary |-> NoSummary]

SweepIdle == sweep = NoSweep

\* The state of the callers that share one connection: each is inside
\* send_order (client/functions/send_order.py) from its request submission
\* on, or inside a position query.
VARIABLES
  callers       \* per caller: where it is, the code its own submission set, its outcome

callerVars == <<callers>>

Callers == 1..MaxCallers

NoCaller ==
  [pc |-> "idle", op |-> "none", own |-> [some |-> FALSE, val |-> 0], outcome |-> NoOutcome]

CallersIdle == callers = [c \in Callers |-> NoCaller]

\* The variables send_order leaves alone.
nonOrderVars == <<queryVars, enumVars, sweepVars, callerVars>>

allVars == <<vars, nonOrderVars>>

NoArgs ==
  [action |-> "", order_type |-> "", rawAction |-> EnumIn(""), rawType |-> EnumIn(""),
   symbol |-> "", volume |-> 0, price |-> 0, stop_loss |-> 0, take_profit |-> 0,
   deviation |-> 0, comment |-> "", expiration |-> 0, price_kind |-> "number"]

\* The gateway calls the call has made, in order.
calls == SelectSeq(trace, LAMBDA s : s \in GatewayCalls)

\* No send_order call is under way.
OrderIdle ==
  /\ pc = "idle"
  /\ args = NoArgs
  /\ outcome = NoOutcome
  /\ trace = <<>>
  /\ symbols = 0
  /\ selected = FALSE
  /\ tick = NoTick
  /\ request = NoRequest

Init ==
  /\ OrderIdle
  /\ gwLastError \in ErrorCodes
  /\ QueryIdle
  /\ EnumIdle
  /\ SweepIdle
  /\ CallersIdle

\* A statement returns or raises: the call is over.
Finish(s, o) ==
  /\ pc' = "done"
  /\ outcome' = o
  /\ trace' = Append(trace, s)
  /\ UNCHANGED nonOrderVars

\* A statement falls through to statement n.
Goto(s, n) ==
  /\ pc' = n
  /\ outcome' = outcome
  /\ trace' = Append(trace, s)
  /\ UNCHANGED nonOrderVars

\* send_order(connection, action, symbol, volume, order_type, price, ...)
Call(a, t, v, pk, p, sl, tp, c) ==
  /\ pc = "idle"
  /\ pc' = MainSeq[1]
  /\ args' = [NoArgs EXCEPT !.rawAction = a, !.rawType = t, !.symbol = "XAUUSD",
                            !.volume = v, !.price = p, !.stop_loss = sl,
                            !.take_profit = tp, !.deviation = 20, !.comment = c,
                            !.price_kind = pk]
  /\ outcome' = NoOutcome
  /\ trace' = <<>>
  /\ symbols' = 0
  /\ selected' = FALSE
  /\ tick' = NoTick
  /\ request' = NoRequest
  /\ UNCHANGED gwLastError
  /\ UNCHANGED nonOrderVars

\* action = TradeRequestActions.validate(action); order_type = OrderType.validate(order_type)
ValidateEnums ==
  /\ pc = "validate_enums"
  /\ LET a == Validate(ActionCode, args.rawAction)
         t == Validate(OrderTypeCode, args.rawType)
     IN  IF a = Invalid \/ t = Invalid
         THEN /\ Finish("validate_enums", Raised("InvalidEnumValue"))
              /\ UNCHANGED args
         ELSE /\ Goto("validate_enums", NextStmt("validate_enums"))
              /\ args' = [args EXCEPT !.action = a, !.order_type = t,
                                       !.rawAction = EnumIn(""), !.rawType = EnumIn("")]
  /\ UNCHANGED <<symbols, selected, tick, request, gwLastError>>

\* if len(_market.get_symbols(symbol)) == 0: return "Invalid symbol"
GetSymbols(n) ==
  /\ pc = "get_symbols"
  /\ symbols' = n
  /\ IF n = 0 THEN Finish("get_symbols", Reject("Invalid symbol"))
              ELSE Goto("get_symbols", NextStmt("get_symbols"))
  /\ UNCHANGED <<args, selected, tick, request, gwLastError>>

\* if not mt5.symbol_select(symbol, True): return "Failed to select"
SymbolSelect(ok) ==
  /\ pc = "symbol_select"
  /\ selected' = ok
  /\ IF ~ok THEN Finish("symbol_select", Reject("Failed to select <symbol>"))
            ELSE Goto("symbol_select", NextStmt("symbol_select"))
  /\ UNCHANGED <<args, symbols, tick, request, gwLastError>>

\* if volume <= 0 or volume > 100: return "Invalid volume"
ValidateVolume ==
  /\ pc = "volume"
  /\ IF VolumeInvalid(args.volume) THEN Finish("volume", Reject("Invalid volume"))
                                   ELSE Goto("volume", NextStmt("volume"))
  /\ UNCHANGED <<args, symbols, selected, tick, request, gwLastError>>

\* price = float(price): raises ValueError on a text that is no number; a
\* number is always a float afterwards, so "Invalid price" is never returned
ValidatePrice ==
  /\ pc = "price"
  /\ IF args.price_kind = "text" THEN Finish("price", Raised("ValueError"))
                                  ELSE Goto("price", NextStmt("price"))
  /\ UNCHANGED <<args, symbols, selected, tick, request, gwLastError>>

\* the stop-loss / take-profit ordering rule
ValidateLevels ==
  /\ pc = "levels"
  /\ LET m == LevelsMessage(args.order_type, args.price, args.stop_loss, args.take_profit)
     IN  IF m # Ok THEN Finish("levels", Reject(m))
                   ELSE Goto("levels", NextStmt("levels"))
  /\ UNCHANGED <<args, symbols, selected, tick, request, gwLastError>>

\* comment = comment if comment else "MCP"; match action
Dispatch ==
  /\ pc = "dispatch"
  /\ args' = [args EXCEPT !.comment = IF args.comment = "" THEN "MCP" ELSE args.comment]
  /\ Goto("dispatch", CASE args.action = "DEAL" -> "deal_type"
                        [] args.action = "PENDING" -> "pending_type"
                        [] OTHER -> "fallthrough")
  /\ UNCHANGED <<symbols, selected, tick, request, gwLastError>>

\* case DEAL: the order type must be BUY or SELL
DealType ==
  /\ pc = "deal_type"
  /\ IF args.order_type \notin DealTypes
     THEN Finish("deal_type", Reject("Invalid order type, must be BUY or SELL"))
     ELSE Goto("deal_type", "deal_request")
  /\ UNCHANGED <<args, symbols, selected, tick, request, gwLastError>>

\* case DEAL: the request literal reads sl and tp, which are bound nowhere
DealRequest ==
  /\ pc = "deal_request"
  /\ IF DealRequestNames \subseteq BoundNames
     THEN /\ Goto("deal_request", "order_send")
          /\ request' = [PendingRequest(args) EXCEPT !.deviation = 20, !.type_time = "",
                                                     !.expiration = 0]
     ELSE /\ Finish("deal_request", Raised("NameError"))
          /\ UNCHANGED request
  /\ UNCHANGED <<args, symbols, selected, tick, gwLastError>>

\* case PENDING: the order type must be a limit or a stop
PendingType ==
  /\ pc = "pending_type"
  /\ IF args.order_type \notin PendingTypes
     THEN Finish("pending_type", Reject("Invalid order type, must be BUY_LIMIT, SELL_LIMIT, BUY_STOP, or SELL_STOP"))
     ELSE Goto("pending_type", "symbol_info_tick")
  /\ UNCHANGED <<args, symbols, selected, tick, request, gwLastError>>

\* tick = mt5.symbol_info_tick(symbol), the price-versus-market rule, the request
SymbolInfoTick(tk) ==
  /\ pc = "symbol_info_tick"
  /\ tick' = tk
  /\ LET m == MarketMessage(args.order_type, args.price, tk)
     IN  IF m # Ok THEN /\ Finish("symbol_info_tick", Reject(m))
                        /\ UNCHANGED request
                   ELSE /\ Goto("symbol_info_tick", "order_send")
                        /\ request' = PendingRequest(args)
  /\ UNCHANGED <<args, symbols, selected, gwLastError>>

\* mt5.order_send(request): the gateway sets its last-error channel
OrderSend(code) ==
  /\ pc = "order_send"
  /\ gwLastError' = code
  /\ Goto("order_send", "last_error")
  /\ UNCHANGED <<args, symbols, selected, tick, request>>

\* How many times the call has executed statement s.
Count(s) == Len(SelectSeq(trace, LAMBDA x : x = s))

\* LastError with the request submitted a second time after a negative code.
LastError_RetryOnce ==
  /\ pc = "last_error"
  /\ IF gwLastError < 0 /\ Count("order_send") < 2
     THEN Goto("last_error", "order_send")
     ELSE Finish("last_error", IF gwLastError < 0 THEN ErrorOutcome(gwLastError) ELSE Success)
  /\ UNCHANGED <<args, symbols, selected, tick, request, gwLastError>>

\* error_code, error_description = mt5.last_error()
LastError ==
  /\ pc = "last_error"
  /\ Finish("last_error", IF gwLastError < 0 THEN ErrorOutcome(gwLastError) ELSE Success)
  /\ UNCHANGED <<args, symbols, selected, tick, request, gwLastError>>

\* no case of the match returned: the final return
Fallthrough ==
  /\ pc = "fallthrough"
  /\ Finish("fallthrough", UnknownError)
  /\ UNCHANGED <<args, symbols, selected, tick, request, gwLastError>>

\* The caller has the outcome; the connection is ready for the next call.
Return ==
  /\ pc = "done"
  /\ pc' = "idle"
  /\ args' = NoArgs
  /\ outcome' = NoOutcome
  /\ trace' = <<>>
  /\ symbols' = 0
  /\ selected' = FALSE
  /\ tick' = NoTick
  /\ request' = NoRequest
  /\ UNCHANGED gwLastError
  /\ UNCHANGED nonOrderVars

Next ==
  \/ /\ pc = "idle"
     /\ \E a \in ActionInputs, t \in OrderTypeInputs, v \in Volumes,
           pk \in PriceKinds, sl \in Prices, tp \in Prices, c \in Comments :
           \E p \in (IF pk = "number" THEN Prices ELSE {0}) :
              Call(a, t, v, pk, p, sl, tp, c)
  \/ ValidateEnums
  \/ /\ pc = "get_symbols"
     /\ \E n \in 0..MaxSymbols : GetSymbols(n)
  \/ /\ pc = "symbol_select"
     /\ \E ok \in BOOLEAN : SymbolSelect(ok)
  \/ ValidateVolume
  \/ ValidatePrice
  \/ ValidateLevels
  \/ Dispatch
  \/ DealType
  \/ DealRequest
  \/ PendingType
  \/ /\ pc = "symbol_info_tick"
     /\ \E tk \in Ticks : SymbolInfoTick(tk)
  \/ /\ pc = "order_send"
     /\ \E code \in ErrorCodes : OrderSend(code)
  \/ LastError
  \/ Fallthrough
  \/ Return

Spec == Init /\ [][Next]_vars

\* ======================================================================
\* OrderType.to_code and OrderType.to_string (client/types.py)
\* ======================================================================
\* An int, or None.
NoInt == [some |-> FALSE, val |-> 0]
SomeInt(n) == [some |-> TRUE, val |-> n]

\* to_code with the name looked up as written.
to_code_CaseSensitive(x, default) ==
  IF x.kind = "name" /\ x.name \in OrderTypeNames
  THEN SomeInt(OrderTypeCode[x.name])
  ELSE default

\* cls[name.upper()].value; the default on KeyError (no such member) and on
\* AttributeError (the argument is no string).
to_code(x, default) ==
  IF x.kind = "name" /\ Upper(x.name) \in OrderTypeNames
  THEN SomeInt(OrderTypeCode[Upper(x.name)])
  ELSE default

\* A default that Python's "or" passes over: None or the empty string.
Falsy(d) == d \in {NoneStr, ""}

\* to_string with the default returned as it is for an unknown code.
to_string_BareDefault(code, default) ==
  IF \E n \in OrderTypeNames : OrderTypeCode[n] = code
  THEN CHOOSE n \in OrderTypeNames : OrderTypeCode[n] = code
  ELSE default

\* the name of the member with that value; default or f"UNKNOWN_{code}"
to_string(code, default) ==
  IF \E n \in OrderTypeNames : OrderTypeCode[n] = code
  THEN CHOOSE n \in OrderTypeNames : OrderTypeCode[n] = code
  ELSE IF Falsy(default) THEN "UNKNOWN_" \o ToString(code) ELSE default

\* ======================================================================
\* MT5Orders._getPositions (client/orders.py)
\* ======================================================================
IntTicket(n) == [kind |-> "int", int |-> n, text |-> <<>>]
StrTicket(t) == [kind |-> "str", int |-> 0, text |-> t]

Digits == <<"0", "1", "2", "3", "4", "5", "6", "7", "8", "9">>

IsDigit(c) == \E i \in 1..Len(Digits) : Digits[i] = c

DigitValue(c) == (CHOOSE i \in 1..Len(Digits) : Digits[i] = c) - 1

RECURSIVE DigitsValue(_)
DigitsValue(t) ==
  IF t = <<>> THEN 0
  ELSE 10 * DigitsValue(SubSeq(t, 1, Len(t) - 1)) + DigitValue(t[Len(t)])

\* int(text) for a text of plain characters: its value, or ValueError.
ParseInt(t) ==
  IF t # <<>> /\ \A i \in 1..Len(t) : IsDigit(t[i])
  THEN [ok |-> TRUE, val |-> DigitsValue(t)]
  ELSE [ok |-> FALSE, val |-> 0]

\* TicketStep with the ValueError of int() left uncaught.
TicketStep_Uncaught(tk) ==
  IF tk.kind = "str"
  THEN IF ParseInt(tk.text).ok THEN [status |-> "ok", val |-> ParseInt(tk.text).val]
                               ELSE [status |-> "raise", val |-> 0]
  ELSE [status |-> "ok", val |-> tk.int]

\* try: ticket = int(ticket) except ValueError: return pd.DataFrame()
TicketStep(tk) ==
  IF tk.kind = "str"
  THEN IF ParseInt(tk.text).ok THEN [status |-> "ok", val |-> ParseInt(tk.text).val]
                               ELSE [status |-> "return_empty", val |-> 0]
  ELSE [status |-> "ok", val |-> tk.int]

\* A string argument that is neither None nor empty.
Truthy(x) == x # NoneStr /\ x # ""

\* SymbolPreCheckFails with several matching symbols let through.
SymbolPreCheckFails_ZeroOnly(n) == n = 0

\* if len(symbols) != 1: return pd.DataFrame()
SymbolPreCheckFails(n) == n # 1

\* if len(symbols) == 0: return pd.DataFrame()
GroupPreCheckFails(n) == n = 0

\* QueryBy with the group tested before the symbol name.
QueryBy_GroupFirst(tk, sn, gr) ==
  IF tk.kind # "none" THEN "ticket"
  ELSE IF gr # NoneStr THEN "group"
  ELSE IF sn # NoneStr THEN "symbol"
  ELSE "all"

\* Which positions_get call the if/elif chain makes.
QueryBy(tk, sn, gr) ==
  IF tk.kind # "none" THEN "ticket"
  ELSE IF sn # NoneStr THEN "symbol"
  ELSE IF gr # NoneStr THEN "group"
  ELSE "all"

\* A position as the gateway reports it.
RawPosition(k, ty, pr) == [ticket |-> k, type |-> ty, profit |-> pr]

FrameColumns == {"id", "symbol", "type", "type_code", "volume", "profit"}

\* convert_positions_to_dataframe: one normalized row per position.
Convert(rows) ==
  [columns |-> FrameColumns,
   rows |-> [i \in 1..Len(rows) |->
               [id |-> rows[i].ticket, type_code |-> rows[i].type,
                type |-> to_string(rows[i].type, NoneStr), profit |-> rows[i].profit]]]

\* TypeCodeOf with a name looked up as written.
TypeCodeOf_CaseSensitive(ot) ==
  CASE ot.kind = "name" -> IF ot.name \in OrderTypeNames
                           THEN SomeInt(OrderTypeCode[ot.name]) ELSE NoInt
    [] ot.kind = "enum" -> SomeInt(OrderTypeCode[ot.name])
    [] OTHER -> SomeInt(ot.code)

\* The code the rows are compared with: to_code of a string, the value of a
\* member, anything else as it is.
TypeCodeOf(ot) ==
  CASE ot.kind = "name" -> to_code(ot, NoInt)
    [] ot.kind = "enum" -> SomeInt(OrderTypeCode[ot.name])
    [] OTHER -> SomeInt(ot.code)

\* result[result['type_code'] == type_code]; None equals no code.
FilterByType(df, ot) ==
  IF ot.kind # "none" /\ df.rows # <<>> /\ "type_code" \in df.columns
  THEN [df EXCEPT !.rows = SelectSeq(df.rows,
          LAMBDA r : TypeCodeOf(ot).some /\ r.type_code = TypeCodeOf(ot).val)]
  ELSE df

\* result = pd.DataFrame(); if positions is not None: result = convert(...)
FrameOf(ans) ==
  IF ans.none THEN Returned(EmptyFrame) ELSE Returned(Convert(ans.rows))

SymbolLookup(arg, n) == [fn |-> "get_symbols", arg |-> arg, n |-> n]
PositionsGet(by) == [fn |-> "positions_get", arg |-> by, n |-> 0]

\* ---------------------------------------------------------------- inputs
Tickets == {7, 12}

TicketInputs ==
  {NoTicket, IntTicket(7), StrTicket(<<"7">>), StrTicket(<<"1", "2">>),
   StrTicket(<<"a", "b", "c">>), StrTicket(<<"1", "x">>)}

SymbolNameInputs == {NoneStr, "", "EURUSD"}

GroupInputs == {NoneStr, "", "*USD*"}

TypeFilterInputs ==
  {NoType, NameIn("SELL"), NameIn("sell"), NameIn("Buy"), NameIn("bogus"),
   CodeIn(0), CodeIn(1), CodeIn(99), EnumIn("SELL"), EnumIn("BUY_LIMIT")}

\* Open positions are buys and sells.
PositionTypes == {0, 1}

RECURSIVE SeqsUpTo(_, _)
SeqsUpTo(S, n) ==
  IF n = 0 THEN {<<>>}
  ELSE SeqsUpTo(S, n - 1) \cup
       {Append(q, x) : q \in {r \in SeqsUpTo(S, n - 1) : Len(r) = n - 1}, x \in S}

QueryAnswers ==
  {NoCollection} \cup
  {Collection(r) : r \in SeqsUpTo({RawPosition(k, ty, 0) : k \in Tickets, ty \in PositionTypes}, MaxRows)}

\* The variables a query leaves alone.
nonQueryVars == <<vars, enumVars, sweepVars, callerVars>>

\* _getPositions(ticket, symbol_name, group, order_type); nS, nG and ans are
\* the gateway's answers to the calls the query makes.
GetPositions(tk, sn, gr, ot, nS, nG, ans) ==
  /\ qpc = "idle"
  /\ qpc' = "done"
  /\ qargs' = [ticket |-> tk, symbol_name |-> sn, group |-> gr, order_type |-> ot]
  /\ LET preS == tk.kind # "none" /\ Truthy(sn)
         failS == preS /\ SymbolPreCheckFails(nS)
         preG == tk.kind # "none" /\ ~failS /\ Truthy(gr)
         failG == preG /\ GroupPreCheckFails(nG)
         pre == (IF preS THEN <<SymbolLookup("symbol_name", nS)>> ELSE <<>>)
                \o (IF preG THEN <<SymbolLookup("group", nG)>> ELSE <<>>)
         step == IF tk.kind # "none" THEN TicketStep(tk) ELSE [status |-> "ok", val |-> 0]
     IN  IF failS \/ failG THEN
              /\ qcalls' = pre
              /\ qfetched' = NoCollection
              /\ qresult' = Returned(EmptyFrame)
         ELSE IF step.status # "ok" THEN
              /\ qcalls' = pre
              /\ qfetched' = NoCollection
              /\ qresult' = IF step.status = "raise" THEN QueryRaised("ValueError")
                                                     ELSE Returned(EmptyFrame)
         ELSE /\ qcalls' = Append(pre, PositionsGet(QueryBy(tk, sn, gr)))
              /\ qfetched' = ans
              /\ qresult' = IF FrameOf(ans).kind = "return"
                            THEN Returned(FilterByType(FrameOf(ans).frame, ot))
                            ELSE FrameOf(ans)
  /\ UNCHANGED nonQueryVars

\* The caller has the result.
QueryReturn ==
  /\ qpc = "done"
  /\ qpc' = "idle"
  /\ qargs' = NoQueryArgs
  /\ qcalls' = <<>>
  /\ qfetched' = NoCollection
  /\ qresult' = NoResult
  /\ UNCHANGED nonQueryVars

NextQuery ==
  \/ /\ qpc = "idle"
     /\ \E tk \in TicketInputs, sn \in SymbolNameInputs, gr \in GroupInputs,
           ot \in TypeFilterInputs, nS \in 0..MaxSymbols, nG \in 0..MaxSymbols,
           ans \in QueryAnswers :
           GetPositions(tk, sn, gr, ot, nS, nG, ans)
  \/ QueryReturn

SpecQuery == Init /\ [][NextQuery]_allVars

\* ======================================================================
\* Callers of the OrderType lookups (client/types.py)
\* ======================================================================
\* The codes tried: the nine defined ones and MaxUnknown on either side.
Codes == (0 - MaxUnknown)..(8 + MaxUnknown)

StringDefaults == {NoneStr, "", "N/A"}

CodeDefaults == {NoInt, SomeInt(0 - 1)}

\* Every spelling UpperTable knows, the names themselves, and no name.
NameStrings == OrderTypeNames \cup DOMAIN UpperTable \cup {""}

nonEnumVars == <<vars, queryVars, sweepVars, callerVars>>

\* name = OrderType.to_string(code, default)
ToStringCall(code, default) ==
  /\ conv.pc = "idle"
  /\ conv' = [NoConv EXCEPT !.pc = "to_string", !.code = code, !.sdefault = default,
                            !.str = to_string(code, default)]
  /\ labels' = IF code \notin 0..8 /\ default = NoneStr
               THEN labels \cup {<<code, to_string(code, default)>>}
               ELSE labels
  /\ UNCHANGED nonEnumVars

\* code = OrderType.to_code(name, default)
ToCodeCall(name, default) ==
  /\ conv.pc = "idle"
  /\ conv' = [NoConv EXCEPT !.pc = "to_code", !.name = name, !.cdefault = default,
                            !.int = to_code(NameIn(name), default)]
  /\ labels' = labels
  /\ UNCHANGED nonEnumVars

\* OrderType.to_code(OrderType.to_string(code))
CodeOfString ==
  /\ conv.pc = "to_string"
  /\ conv' = [conv EXCEPT !.pc = "code_of_string", !.int = to_code(NameIn(conv.str), NoInt)]
  /\ labels' = labels
  /\ UNCHANGED nonEnumVars

\* OrderType.to_string(OrderType.to_code(name)), when to_code gave a code
StringOfCode ==
  /\ conv.pc = "to_code"
  /\ conv.int.some
  /\ conv' = [conv EXCEPT !.pc = "string_of_code", !.str = to_string(conv.int.val, NoneStr)]
  /\ labels' = labels
  /\ UNCHANGED nonEnumVars

\* The caller is done with the values.
EnumReturn ==
  /\ conv.pc # "idle"
  /\ conv' = NoConv
  /\ labels' = labels
  /\ UNCHANGED nonEnumVars

NextEnum ==
  \/ /\ conv.pc = "idle"
     /\ \E code \in Codes, default \in StringDefaults : ToStringCall(code, default)
  \/ /\ conv.pc = "idle"
     /\ \E name \in NameStrings, default \in CodeDefaults : ToCodeCall(name, default)
  \/ CodeOfString
  \/ StringOfCode
  \/ EnumReturn

SpecEnum == Init /\ [][NextEnum]_allVars

\* ======================================================================
\* close_all_profittable_positions
\* (client/order/close_all_profittable_positions.py)
\* ======================================================================
Summary(count) ==
  [kind |-> "return", error |-> FALSE,
   message |-> "Close " \o ToString(count) \o " profittable positions success",
   data |-> NoneStr, exc |-> ""]

SweepRaised(e) == [kind |-> "raise", error |-> FALSE, message |-> "", data |-> NoneStr, exc |-> e]

Profits == {0 - 1, 0, 1}

SweepAnswers ==
  {NoCollection} \cup
  {Collection(r) : r \in SeqsUpTo({RawPosition(k, 0, pr) : k \in Tickets, pr \in Profits}, MaxRows)}

\* get_all_positions(connection): the position query with no filter.
get_all_positions(ans) == FrameOf(ans).frame

\* positions[positions["profit"] >= 0]
Profitable(df) == [df EXCEPT !.rows = SelectSeq(df.rows, LAMBDA r : r.profit >= 0)]

nonSweepVars == <<vars, queryVars, enumVars, callerVars>>

\* close_all_profittable_positions(connection); ans is the gateway's answer
\* to positions_get, oks[i] whether the i-th close_position call closed its
\* position.
CloseAllProfitable(ans, oks) ==
  /\ sweep.pc = "idle"
  /\ LET positions == get_all_positions(ans)
     IN  IF "profit" \notin positions.columns THEN
              sweep' = [pc |-> "done", fetched |-> ans, closes |-> <<>>,
                        summary |-> SweepRaised("KeyError")]
         ELSE LET kept == Profitable(positions).rows
              IN  sweep' = [pc |-> "done", fetched |-> ans,
                            closes |-> [i \in 1..Len(kept) |-> [id |-> kept[i].id, ok |-> oks[i]]],
                            summary |-> Summary(Len(kept))]
  /\ UNCHANGED nonSweepVars

SweepReturn ==
  /\ sweep.pc = "done"
  /\ sweep' = NoSweep
  /\ UNCHANGED nonSweepVars

NextSweep ==
  \/ /\ sweep.pc = "idle"
     /\ \E ans \in SweepAnswers, oks \in [1..MaxRows -> BOOLEAN] : CloseAllProfitable(ans, oks)
  \/ SweepReturn

SpecSweep == Init /\ [][NextSweep]_allVars

\* ======================================================================
\* Several callers on one connection
\* (client/functions/send_order.py, client/orders.py)
\* ======================================================================
\* Nothing in send_order or _getPositions takes a lock, so the statements of
\* two callers interleave freely; one gateway call is one step.

\* Everything but the callers and the gateway's last-error channel.
nonCallerVars ==
  <<pc, args, outcome, trace, symbols, selected, tick, request, queryVars, enumVars, sweepVars>>

\* A caller enters send_order with a pending order that passes every check:
\* it stands before mt5.order_send(request).
CallerBeginOrder(c) ==
  /\ callers[c].pc = "idle"
  /\ callers' = [callers EXCEPT ![c] = [NoCaller EXCEPT !.pc = "order_send", !.op = "send_order"]]
  /\ UNCHANGED <<gwLastError, nonCallerVars>>

\* A caller enters _getPositions: it stands before mt5.positions_get(...).
CallerBeginQuery(c) ==
  /\ callers[c].pc = "idle"
  /\ callers' = [callers EXCEPT ![c] = [NoCaller EXCEPT !.pc = "positions_get", !.op = "query"]]
  /\ UNCHANGED <<gwLastError, nonCallerVars>>

\* mt5.order_send(request): the gateway sets its last-error channel
CallerOrderSend(c, code) ==
  /\ callers[c].pc = "order_send"
  /\ gwLastError' = code
  /\ callers' = [callers EXCEPT ![c].pc = "last_error", ![c].own = SomeInt(code)]
  /\ UNCHANGED nonCallerVars

\* error_code, error_description = mt5.last_error() and the two returns
CallerLastError(c) ==
  /\ callers[c].pc = "last_error"
  /\ callers' = [callers EXCEPT ![c].pc = "done",
                                ![c].outcome = IF gwLastError < 0 THEN ErrorOutcome(gwLastError)
                                                                  ELSE Success]
  /\ UNCHANGED <<gwLastError, nonCallerVars>>

\* mt5.positions_get(...): the gateway sets its last-error channel
CallerPositionsGet(c, code) ==
  /\ callers[c].pc = "positions_get"
  /\ gwLastError' = code
  /\ callers' = [callers EXCEPT ![c].pc = "done"]
  /\ UNCHANGED nonCallerVars

\* The caller has its result.
CallerReturn(c) ==
  /\ callers[c].pc = "done"
  /\ callers' = [callers EXCEPT ![c] = NoCaller]
  /\ UNCHANGED <<gwLastError, nonCallerVars>>

NextCallers ==
  \E c \in Callers :
    \/ CallerBeginOrder(c)
    \/ CallerBeginQuery(c)
    \/ \E code \in ErrorCodes : CallerOrderSend(c, code)
    \/ CallerLastError(c)
    \/ \E code \in ErrorCodes : CallerPositionsGet(c, code)
    \/ CallerReturn(c)

SpecCallers == Init /\ [][NextCallers]_allVars

\* ------------------------------------------------------------ properties
Done == pc = "done"

\* The call has executed statement s.
Did(s) == \E i \in 1..Len(trace) : trace[i] = s

\* The outcome is a returned dictionary with success False and message m.
RejectedWith(m) ==
  /\ outcome.kind = "return"
  /\ ~outcome.success
  /\ "message" \in outcome.keys
  /\ outcome.message = m

BuySide == {"BUY", "BUY_LIMIT", "BUY_STOP", "BUY_STOP_LIMIT"}
SellSide == {"SELL", "SELL_LIMIT", "SELL_STOP", "SELL_STOP_LIMIT"}

StopMessages ==
  {"Stop loss must be below the price", "Take profit must be above the price",
   "Stop loss must be below the take profit", "Stop loss must be above the price",
   "Take profit must be below the price", "Stop loss must be above the take profit"}

\* The symbol resolved and was activated, the volume is in (0, 100] and the
\* price is a number.
SymbolAndVolumeValid ==
  /\ args.price_kind = "number"
  /\ symbols > 0
  /\ selected
  /\ args.volume > 0
  /\ args.volume <= 100 * VolScale

\* The messages that match the inequalities a buy-side intent violates.
BuyMatching(p, sl, tp) ==
  (IF sl >= p THEN {"Stop loss must be below the price"} ELSE {})
  \cup (IF tp <= p THEN {"Take profit must be above the price"} ELSE {})
  \cup (IF sl > tp THEN {"Stop loss must be below the take profit"} ELSE {})

\* The messages that match the inequalities a sell-side intent violates.
SellMatching(p, sl, tp) ==
  (IF sl <= p THEN {"Stop loss must be above the price"} ELSE {})
  \cup (IF tp >= p THEN {"Take profit must be below the price"} ELSE {})
  \cup (IF sl < tp THEN {"Stop loss must be above the take profit"} ELSE {})

\* C1: a call with a valid symbol and volume and non-zero stop-loss and
\* take-profit that violates the ordering rule of its side (buy-side and
\* sell-side taken with the STOP_LIMIT types) ends non-success with a
\* message matching a violated inequality, whatever the action.
C1_OrderingViolationRejected ==
  (Done /\ SymbolAndVolumeValid /\ args.stop_loss # 0 /\ args.take_profit # 0) =>
    LET t == args.order_type
        p == args.price
        sl == args.stop_loss
        tp == args.take_profit
    IN  /\ (t \in BuySide /\ BuyMatching(p, sl, tp) # {}) =>
              \E m \in BuyMatching(p, sl, tp) : RejectedWith(m)
        /\ (t \in SellSide /\ SellMatching(p, sl, tp) # {}) =>
              \E m \in SellMatching(p, sl, tp) : RejectedWith(m)

\* C2 as stated: a call rejected by the ordering rule has made no gateway
\* call of any kind.
C2_NoGatewayCallBeforeOrderingRejection ==
  (Done /\ \E m \in StopMessages : RejectedWith(m)) => calls = <<>>

\* C2 as amended: a call rejected by the ordering rule has made the symbol
\* lookup and the symbol activation, once each, and no other gateway call:
\* no quote lookup, no request submission, no last-error read.
C2_OrderingRejectionAfterSymbolCallsOnly ==
  (Done /\ \E m \in StopMessages : RejectedWith(m)) =>
    calls = <<"get_symbols", "symbol_select">>

C2_Witness ==
  /\ Done
  /\ RejectedWith("Stop loss must be below the price")
  /\ args.action = "PENDING"

\* C3: a buy-side or sell-side call with stop-loss 0 and take-profit 0,
\* a valid symbol and a valid volume, is not rejected by the ordering rule
\* and reaches the dispatch on the action.
C3_ZeroLevelsNotRejected ==
  (Done /\ SymbolAndVolumeValid /\ args.order_type \in BuySide \cup SellSide
        /\ args.stop_loss = 0 /\ args.take_profit = 0) =>
    /\ ~ \E m \in StopMessages : RejectedWith(m)
    /\ Did("dispatch")

\* C4: with a resolved and activated symbol, the call ends with the
\* invalid-volume outcome exactly when volume <= 0 or volume > 100, and a
\* volume in (0, 100] passes on to the checks after the volume check;
\* 0, -1 and 100.0001 are rejected, 100 and 0.01 pass.
C4_InvalidVolumeIffOutOfRange ==
  (Done /\ symbols > 0 /\ selected) =>
    LET v == args.volume
    IN  /\ RejectedWith("Invalid volume") <=> (v <= 0 \/ v > 100 * VolScale)
        /\ (v > 0 /\ v <= 100 * VolScale) => Did("price")
        /\ v \in {0, 0 - VolScale, 100 * VolScale + 1} => RejectedWith("Invalid volume")
        /\ v \in {100 * VolScale, VolScale \div 100} => ~RejectedWith("Invalid volume")

C4_Witness ==
  /\ Done
  /\ symbols > 0
  /\ selected
  /\ args.volume = 100 * VolScale
  /\ Did("price")

\* The levels are the defaults, or they satisfy the ordering rule of the side.
LevelsDefaultOrValid ==
  LET t == args.order_type
      p == args.price
      sl == args.stop_loss
      tp == args.take_profit
  IN  \/ p = 0 /\ sl = 0 /\ tp = 0
      \/ t \in BuySide /\ sl < p /\ p < tp
      \/ t \in SellSide /\ sl > p /\ p > tp
      \/ t \notin BuySide \cup SellSide

\* C5: a MARKET_DEAL call with an order type other than BUY or SELL, the
\* other parameters at their defaults or valid, is rejected with the
\* "must be BUY or SELL" message and submits no request.
C5_MarketDealNeedsBuyOrSell ==
  (Done /\ SymbolAndVolumeValid /\ args.action = "DEAL"
        /\ args.order_type \notin {"BUY", "SELL"} /\ LevelsDefaultOrValid) =>
    /\ RejectedWith("Invalid order type, must be BUY or SELL")
    /\ ~Did("order_send")

\* The pending price is on the wrong side of the quote.
MarketViolation(t, p, tk) ==
  \/ t = "BUY_LIMIT" /\ p > tk.ask
  \/ t = "SELL_LIMIT" /\ p < tk.bid
  \/ t = "BUY_STOP" /\ p < tk.ask
  \/ t = "SELL_STOP" /\ p > tk.bid

MarketMessages ==
  {"Invalid price, must be above current ask", "Invalid price, must be below current bid"}

\* C6: a PENDING call that passed validation and got a quote is rejected,
\* with no request submitted, exactly when its price is on the wrong side
\* of the quote; a price on the boundary is submitted; a SELL_LIMIT price
\* below the bid gets the below-bid message.
C6_PendingPriceAgainstQuote ==
  (Done /\ args.action = "PENDING" /\ Did("dispatch") /\ tick.has) =>
    LET t == args.order_type
        p == args.price
    IN  /\ ((\E m \in MarketMessages : RejectedWith(m)) /\ ~Did("order_send"))
              <=> MarketViolation(t, p, tick)
        /\ ~MarketViolation(t, p, tick) => Did("order_send")
        /\ (t = "SELL_LIMIT" /\ p < tick.bid) =>
              RejectedWith("Invalid price, must be below current bid")

C6_Witness ==
  /\ Done
  /\ args.action = "PENDING"
  /\ args.order_type = "SELL_LIMIT"
  /\ tick.has
  /\ args.price < tick.bid
  /\ RejectedWith("Invalid price, must be below current bid")

\* C7: a PENDING call with an allowed order type that passed validation and
\* got no quote from the gateway is submitted, whatever its price.
C7_NoQuoteSkipsPriceCheck ==
  (Done /\ args.action = "PENDING" /\ Did("dispatch")
        /\ args.order_type \in {"BUY_LIMIT", "SELL_LIMIT", "BUY_STOP", "SELL_STOP"}
        /\ ~tick.has) =>
    /\ Did("symbol_info_tick")
    /\ Did("order_send")
    /\ request.built
    /\ request.price = args.price

C7_Witness ==
  /\ Done
  /\ args.action = "PENDING"
  /\ args.order_type = "BUY_STOP"
  /\ Did("symbol_info_tick")
  /\ ~tick.has
  /\ Did("order_send")

\* C8: a validated MARKET_DEAL call with BUY or SELL, and a validated
\* PENDING call with an allowed type and a market-consistent price, is
\* submitted, and its outcome follows the last-error channel alone:
\* non-success carrying the code when the code is negative, success with
\* "Order sent successfully" otherwise.
C8_SubmittedAndDecidedByLastError ==
  (Done /\ Did("dispatch")
        /\ \/ args.action = "DEAL" /\ args.order_type \in {"BUY", "SELL"}
           \/ /\ args.action = "PENDING"
              /\ args.order_type \in {"BUY_LIMIT", "SELL_LIMIT", "BUY_STOP", "SELL_STOP"}
              /\ (tick.has => ~MarketViolation(args.order_type, args.price, tick))) =>
    /\ Did("order_send")
    /\ outcome.kind = "return"
    /\ IF gwLastError < 0
       THEN ~outcome.success /\ outcome.error_code = gwLastError
       ELSE outcome.success /\ outcome.message = "Order sent successfully"

\* C9: a validated call with action MODIFY_SLTP, MODIFY_ORDER, REMOVE or
\* CLOSE_BY submits nothing and returns non-success, return_code -1,
\* message "Unknown error".
C9_UnwiredActionsUnknownError ==
  (Done /\ Did("dispatch") /\ args.action \in {"SLTP", "MODIFY", "REMOVE", "CLOSE_BY"}) =>
    /\ ~Did("order_send")
    /\ outcome.kind = "return"
    /\ ~outcome.success
    /\ "return_code" \in outcome.keys
    /\ outcome.return_code = -1
    /\ "message" \in outcome.keys
    /\ outcome.message = "Unknown error"

\* The input matches no known name and no known code of the table.
Unrecognized(table, x) ==
  \/ x.kind = "name" /\ Upper(x.name) \notin DOMAIN table
  \/ x.kind = "code" /\ \A n \in DOMAIN table : table[n] # x.code

\* C10: a call whose action or order type matches no known name or code
\* returns a non-success outcome instead of raising, and makes no gateway
\* call.
C10_UnknownEnumReturnsNonSuccess ==
  (Done /\ (Unrecognized(ActionCode, args.rawAction)
            \/ Unrecognized(OrderTypeCode, args.rawType))) =>
    /\ outcome.kind = "return"
    /\ ~outcome.success
    /\ calls = <<>>

\* The action and the order type each match a known name or code.
EnumsRecognized ==
  /\ ~Unrecognized(ActionCode, args.rawAction)
  /\ ~Unrecognized(OrderTypeCode, args.rawType)

\* The terminal states of the order state machine, read off the outcome.
Rejected ==
  /\ outcome.kind = "return"
  /\ ~outcome.success
  /\ outcome.message # "Error <code>: <description>"

Succeeded == outcome.kind = "return" /\ outcome.success

Failed ==
  /\ outcome.kind = "return"
  /\ ~outcome.success
  /\ outcome.message = "Error <code>: <description>"

\* C11: every call ends by returning an outcome that is exactly one of
\* Rejected, Succeeded, Failed; none ends by raising; Succeeded and Failed
\* are reached only after the dispatch on the action (Routed) and the
\* submission of the request (Dispatched).  Stated for calls whose action
\* and order type are recognized; C10 is about the others.
C11_EndsInOneTerminalState ==
  (Done /\ EnumsRecognized) =>
    /\ outcome.kind = "return"
    /\ Cardinality({b \in {"R", "S", "F"} :
                      \/ b = "R" /\ Rejected
                      \/ b = "S" /\ Succeeded
                      \/ b = "F" /\ Failed}) = 1
    /\ (Succeeded \/ Failed) => (Did("dispatch") /\ Did("order_send"))

\* C12: a call submits at most one request to the gateway, whatever code
\* the last-error channel holds, and none when it ends Rejected.
C12_AtMostOneSubmission ==
  /\ Count("order_send") <= 1
  /\ (Done /\ Rejected) => Count("order_send") = 0
  /\ (Done /\ (Succeeded \/ Failed)) => Count("order_send") = 1

C12_Witness ==
  /\ Done
  /\ Failed
  /\ gwLastError < 0
  /\ Count("order_send") = 1

\* The validation rules in their fixed order.
Pipeline ==
  <<"validate_enums", "get_symbols", "symbol_select", "volume", "price", "levels">>

\* The rule, if one, whose check the inputs and the gateway's answers fail
\* first; 7 when none fails.
EarliestViolated ==
  IF Unrecognized(ActionCode, args.rawAction) \/ Unrecognized(OrderTypeCode, args.rawType) THEN 1
  ELSE IF symbols = 0 THEN 2
  ELSE IF ~selected THEN 3
  ELSE IF args.volume <= 0 \/ args.volume > 100 * VolScale THEN 4
  ELSE IF args.price_kind # "number" THEN 5
  ELSE IF \E m \in StopMessages : RejectedWith(m) THEN 6
  ELSE 7

\* C13: validation runs the rules in the fixed order and stops at the first
\* violated one: the outcome is a non-success return carrying that rule's
\* message, no later rule has run, and the action-specific order-type check
\* runs only after all rules passed.  Stated for calls whose action and
\* order type are recognized; C10 is about the others.
C13_ShortCircuitInFixedOrder ==
  (Done /\ EnumsRecognized) =>
    LET k == EarliestViolated
    IN  /\ \A i \in 1..Len(trace) : i <= Len(Pipeline) => trace[i] = Pipeline[i]
        /\ (Did("deal_type") \/ Did("pending_type")) => (k = 7 /\ Len(trace) > Len(Pipeline))
        /\ k <= 6 =>
             /\ Len(trace) = k
             /\ outcome.kind = "return"
             /\ ~outcome.success
             /\ "message" \in outcome.keys
        /\ k = 2 => RejectedWith("Invalid symbol")
        /\ k = 3 => RejectedWith("Failed to select <symbol>")
        /\ k = 4 => RejectedWith("Invalid volume")


\* ======================================================================
\* Properties of _getPositions
\* ======================================================================
QueryDone == qpc = "done"

PositionQueries == SelectSeq(qcalls, LAMBDA c : c.fn = "positions_get")

Lookups == SelectSeq(qcalls, LAMBDA c : c.fn = "get_symbols")

EmptyResult == qresult.kind = "return" /\ qresult.frame.rows = <<>>

\* The query the documented precedence asks for.
Preferred ==
  CASE qargs.ticket.kind # "none" -> "ticket"
    [] qargs.ticket.kind = "none" /\ qargs.symbol_name # NoneStr -> "symbol"
    [] qargs.ticket.kind = "none" /\ qargs.symbol_name = NoneStr /\ qargs.group # NoneStr -> "group"
    [] OTHER -> "all"

C15_PreCheckNeedsExactlyOne ==
  (QueryDone /\ qargs.ticket.kind # "none"
     /\ \E i \in 1..Len(Lookups) : Lookups[i].n # 1)
  => (EmptyResult /\ PositionQueries = <<>>)

\* C15 amended: with a ticket, a non-empty symbol name that resolves to zero
\* or to several instruments, or a non-empty group that resolves to zero
\* instruments, gives an empty result and no query by ticket; a group that
\* resolves to several instruments lets the query by ticket go on.
C15_PreCheckSymbolOneGroupAny ==
  (QueryDone /\ qargs.ticket.kind # "none") =>
    /\ (\E i \in 1..Len(Lookups) :
          \/ Lookups[i].arg = "symbol_name" /\ Lookups[i].n # 1
          \/ Lookups[i].arg = "group" /\ Lookups[i].n = 0)
       => (EmptyResult /\ PositionQueries = <<>>)
    /\ (qargs.ticket.kind = "int" /\ ~Truthy(qargs.symbol_name)
          /\ \E i \in 1..Len(Lookups) : Lookups[i].arg = "group" /\ Lookups[i].n > 1)
       => PositionQueries = <<PositionsGet("ticket")>>

\* A ticket with a symbol name that resolves to two instruments: nothing
\* asked by ticket, nothing returned.
C15_Witness ==
  /\ QueryDone
  /\ qargs.ticket = IntTicket(7)
  /\ Lookups = <<SymbolLookup("symbol_name", 2)>>
  /\ PositionQueries = <<>>
  /\ EmptyResult

NonNumericTicket ==
  /\ qargs.ticket.kind = "str"
  /\ \/ qargs.ticket.text = <<>>
     \/ \E i \in 1..Len(qargs.ticket.text) :
          qargs.ticket.text[i] \notin {"0", "1", "2", "3", "4", "5", "6", "7", "8", "9"}

\* C16: a finished query has returned a frame, never raised; a non-numeric
\* ticket string gives an empty frame without any positions query; a gateway
\* that answers with no collection or with an empty one (a ticket that does
\* not exist, a filter without matches) gives an empty frame.
C16_NoDataIsEmptyNotError ==
  QueryDone =>
    /\ qresult.kind = "return"
    /\ NonNumericTicket => (qresult = Returned(EmptyFrame) /\ PositionQueries = <<>>)
    /\ (PositionQueries # <<>> /\ qfetched.rows = <<>>) => EmptyResult

\* The ticket "abc" came back as an empty frame.
C16_Witness ==
  /\ QueryDone
  /\ qargs.ticket = StrTicket(<<"a", "b", "c">>)
  /\ qresult = Returned(EmptyFrame)
  /\ qcalls = <<>>

\* The order type a filter names, if it names one.
Wanted ==
  CASE qargs.order_type.kind = "name" /\ Upper(qargs.order_type.name) \in OrderTypeNames
         -> SomeInt(OrderTypeCode[Upper(qargs.order_type.name)])
    [] qargs.order_type.kind = "enum" -> SomeInt(OrderTypeCode[qargs.order_type.name])
    [] qargs.order_type.kind = "code" -> SomeInt(qargs.order_type.code)
    [] OTHER -> NoInt

ReturnedRows == qresult.frame.rows

\* C17: when a query with an order type has fetched positions, every row it
\* returns has the code and the name of that type, every fetched position of
\* that type is returned, in the fetched order; a name that is no order type
\* returns no rows.
C17_TypeFilterKeepsExactlyMatches ==
  (QueryDone /\ qargs.order_type.kind # "none" /\ PositionQueries # <<>>) =>
    /\ qresult.kind = "return"
    /\ ~Wanted.some => ReturnedRows = <<>>
    /\ Wanted.some =>
         /\ \A j \in 1..Len(ReturnedRows) :
              /\ ReturnedRows[j].type_code = Wanted.val
              /\ Wanted.val \in 0..8 => OrderTypeCode[ReturnedRows[j].type] = Wanted.val
         /\ [j \in 1..Len(ReturnedRows) |-> ReturnedRows[j].id]
              = [j \in 1..Len(SelectSeq(qfetched.rows, LAMBDA r : r.type = Wanted.val)) |->
                   SelectSeq(qfetched.rows, LAMBDA r : r.type = Wanted.val)[j].ticket]

\* A buy and a sell were fetched and the filter "sell" kept the sell.
C17_Witness ==
  /\ QueryDone
  /\ qargs.order_type = NameIn("sell")
  /\ qfetched = Collection(<<RawPosition(7, 0, 0), RawPosition(12, 1, 0)>>)
  /\ Len(ReturnedRows) = 1
  /\ ReturnedRows[1].id = 12
  /\ ReturnedRows[1].type = "SELL"


\* ======================================================================
\* Properties of the OrderType lookups
\* ======================================================================
\* The ways of writing a member's name: upper, lower and mixed case.
Spellings(n) == {n} \cup {w \in DOMAIN UpperTable : UpperTable[w] = n}

\* C18: for each of the nine members, to_code of to_string(code) is the code
\* again; to_string of to_code(name) is the member's name, whichever way the
\* name was written; and no two members share a code or a name.
C18_RoundTrip ==
  /\ (conv.pc = "code_of_string" /\ conv.code \in 0..8) => conv.int = SomeInt(conv.code)
  /\ \A n \in OrderTypeNames :
       conv.name \in Spellings(n) =>
         /\ conv.pc = "to_code" => conv.int = SomeInt(OrderTypeCode[n])
         /\ conv.pc = "string_of_code" => conv.str = n
  /\ Cardinality(OrderTypeNames) = 9
  /\ {OrderTypeCode[n] : n \in OrderTypeNames} = 0..8

\* "Sell_Stop_Limit" went to its code and came back as SELL_STOP_LIMIT.
C18_Witness ==
  /\ conv.pc = "string_of_code"
  /\ conv.name = "Sell_Stop_Limit"
  /\ conv.int = SomeInt(7)
  /\ conv.str = "SELL_STOP_LIMIT"

\* C19: to_string of a code outside 0..8, called without a default, gives
\* "UNKNOWN_" followed by the code; every such code has had one label only.
C19_UnknownCodeLabel ==
  /\ (conv.pc = "to_string" /\ conv.code \notin 0..8 /\ conv.sdefault = NoneStr)
       => conv.str = "UNKNOWN_" \o ToString(conv.code)
  /\ \A a \in labels, b \in labels : a[1] = b[1] => a[2] = b[2]
  /\ \A a \in labels : a[2] = "UNKNOWN_" \o ToString(a[1])

\* The codes 9 and -1 have been looked up: UNKNOWN_9 and UNKNOWN_-1.
C19_Witness ==
  /\ conv.pc = "to_string"
  /\ conv.code = 9
  /\ conv.sdefault = NoneStr
  /\ conv.str = "UNKNOWN_9"
  /\ <<0 - 1, "UNKNOWN_-1">> \in labels

\* ======================================================================
\* Properties of close_all_profittable_positions
\* ======================================================================
SweepDone == sweep.pc = "done"

NoEligiblePosition ==
  \A i \in 1..Len(sweep.fetched.rows) : sweep.fetched.rows[i].profit < 0

\* C20: when no position has a non-negative profit, also when there is no
\* position at all, the operation makes no close call and returns error
\* False, the message "Close 0 profittable positions success" and no data.
C20_NothingEligibleClosesNothing ==
  (SweepDone /\ NoEligiblePosition) =>
    /\ sweep.closes = <<>>
    /\ sweep.summary = Summary(0)
    /\ sweep.summary.message = "Close 0 profittable positions success"
    /\ sweep.summary.error = FALSE
    /\ sweep.summary.data = NoneStr

\* C20 for a gateway that answers with a collection.
C20_WithCollection ==
  (SweepDone /\ NoEligiblePosition /\ ~sweep.fetched.none) =>
    (sweep.closes = <<>> /\ sweep.summary = Summary(0))


\* The fetched positions with a non-negative profit, in the fetched order.
Eligible == SelectSeq(sweep.fetched.rows, LAMBDA r : r.profit >= 0)

\* The close calls that closed their position.
Closed == SelectSeq(sweep.closes, LAMBDA c : c.ok)

\* C21: when the gateway has answered with a collection, the operation has
\* called the single-position close once for each position with a profit of
\* zero or more, in order, and for no other; it has gone on after a close
\* that failed; and the count in its message is the number of closes that
\* succeeded.
C21_CountsSucceededCloses ==
  (SweepDone /\ ~sweep.fetched.none) =>
    /\ [i \in 1..Len(sweep.closes) |-> sweep.closes[i].id]
         = [i \in 1..Len(Eligible) |-> Eligible[i].ticket]
    /\ sweep.summary = Summary(Len(Closed))

\* C21 without its count: one close call for each eligible position and for
\* no other, whether or not an earlier close failed, and a summary that
\* counts the calls.
C21_ClosesEachEligibleOnce ==
  (SweepDone /\ ~sweep.fetched.none) =>
    /\ [i \in 1..Len(sweep.closes) |-> sweep.closes[i].id]
         = [i \in 1..Len(Eligible) |-> Eligible[i].ticket]
    /\ sweep.summary = Summary(Len(sweep.closes))


\* ======================================================================
\* Properties of several callers on one connection
\* ======================================================================
\* What send_order returns for the last-error code its own submission set.
OwnOutcome(c) ==
  IF callers[c].own.val < 0 THEN ErrorOutcome(callers[c].own.val) ELSE Success

\* C22: with several callers on one connection, a send_order call that has
\* read the last error has read the code its own order_send set: its outcome
\* is the one that code gives, whatever gateway calls the other callers made.
C22_ReadsOwnLastError ==
  \A c \in Callers :
    (callers[c].pc = "done" /\ callers[c].op = "send_order") => callers[c].outcome = OwnOutcome(c)

====
